---- MODULE Spec2Model ----
(***************************************************************************)
(* The party manager of sutrofm: the management command party_manager.py   *)
(* (one coordinator process per invocation) running against the database   *)
(* rows of models.py (Party, QueueItem, UserVote, UserPartyPresence).      *)
(*                                                                         *)
(* Every database query is one atomic step of the coordinator that issues  *)
(* it; the Python between two queries (the sleep and the loop test of run  *)
(* included) is part of the step of the query it follows.  Times are in    *)
(* milliseconds; the clock advances ClockStep seconds at a time, between   *)
(* any two steps.                                                          *)
(***************************************************************************)
EXTENDS Integers, FiniteSets, Sequences, TLC

\* ------------------------------------------------------------------ bounds
Managers == {1, 2}      \* coordinator processes; a manager's uuid4 is its number
Users == 1..5
Few == {1, 2}          \* the users that vote and check in where two are enough
Items == {1, 2}         \* QueueItem primary keys
ClockStep == 20         \* seconds the clock advances at a time
MaxTicks == 1           \* clock advances in one behaviour

\* --------------------------------------------------------------- constants
Second == 1000                               \* milliseconds in a second
MAX_MANAGER_CHECK_IN_WAIT == 10              \* seconds
USER_CHECK_IN_FREQUENCY == 60                \* seconds (timedelta(minutes=1))

NoTime == -1            \* None in a DateTimeField; no row in a presence table
NoItem == 0             \* None in the playing_item foreign key
NoUuid == 0             \* None in last_manager_uuid
DeadUuid == 9           \* uuid of a manager of an earlier run, not running any more
Uuids == Managers \cup {NoUuid, DeadUuid}

\* The smallest age, in seconds, the clock can show that is older than `limit`.
StaleAge(limit) == ((limit \div ClockStep) + 1) * ClockStep
InitNow == StaleAge(USER_CHECK_IN_FREQUENCY) * Second
\* A track that lasts one clock step; 0 stands for a duration of None or 0.
TrackDuration == ClockStep * Second
Durations == {0, TrackDuration}

VARIABLES
  now,            \* django.utils.timezone.now(), milliseconds
  nulls_first,    \* the database orders NULL before every value in ORDER BY ... DESC
  db_party,       \* the Party row
  db_items,       \* the QueueItem rows
  db_votes,       \* the UserVote rows
  db_presence,    \* the UserPartyPresence rows: last_check_in by user
  pc,             \* where each manager is
  keep_running,   \* Command.keep_running
  party,          \* Command.party: the in-memory Party instance
  item,           \* the cached instance behind Command.party.playing_item
  prev_item,      \* prev_item of play_next_queue_item
  ret,            \* where play_next_queue_item returns to
  ticked,         \* the manager has begun the body of its while loop
  owned,          \* the manager has saved the party with itself as the owner
  pruned,         \* the users whose presence row prune_users deleted and who
                  \* have not checked in since
  superseded,     \* this tick's refresh_from_db found the party, which the manager
                  \* owned, with the uuid of another manager
  from_queue      \* this tick's refresh_from_db found the party playing nothing
                  \* and with items in its queue

store == <<db_party, db_items, db_votes, db_presence>>
locals == <<party, item, prev_item, ret>>
history == <<ticked, owned>>
vars == <<now, nulls_first, db_party, db_items, db_votes, db_presence,
          pc, keep_running, party, item, prev_item, ret, ticked, owned,
          pruned, superseded, from_queue>>

NoRow == [exists |-> FALSE, playing_start_time |-> NoTime, duration_ms |-> 0]
NoCache == [playing_start_time |-> NoTime, duration_ms |-> 0]
NoParty == [last_manager_uuid |-> NoUuid, last_manager_check_in |-> NoTime,
            playing_item |-> NoItem]

\* ------------------------------------------------------ models.py, queries

\* Party.user_count: the presence rows of the party.
UserCount(presence) == Cardinality({u \in Users : presence[u] # NoTime})

\* needs_new_manager with a heartbeat of exactly the limit taken as stale.
NeedsNewManagerAtLimit(p, t) ==
  IF p.last_manager_check_in = NoTime
    THEN TRUE
    ELSE t - p.last_manager_check_in >= MAX_MANAGER_CHECK_IN_WAIT * Second

\* Party.needs_new_manager, on a Party instance p at time t.
NeedsNewManager(p, t) ==
  IF p.last_manager_check_in = NoTime
    THEN TRUE
    ELSE t - p.last_manager_check_in > MAX_MANAGER_CHECK_IN_WAIT * Second

\* VoteOrderedQueueManager.get_queryset, filtered on the party: the rows with
\* playing_start_time = None.
Queue(items) ==
  {i \in Items : items[i].exists /\ items[i].playing_start_time = NoTime}

VotesOn(votes, i) == {v \in votes : v.item = i}

RECURSIVE SumValues(_)
SumValues(vs) ==
  IF vs = {} THEN 0
  ELSE LET v == CHOOSE x \in vs : TRUE IN v.value + SumValues(vs \ {v})

\* annotate(score=Sum('votes__value')): NULL for an item without votes.
ScoreIsNull(votes, i) == VotesOn(votes, i) = {}
Score(votes, i) == SumValues(VotesOn(votes, i))

\* order_by('-score'): i may come before j.  Where NULL sorts is the
\* database's choice (first in PostgreSQL, last in SQLite and MySQL).
MayPrecede(votes, nf, i, j) ==
  IF ScoreIsNull(votes, i) /\ ScoreIsNull(votes, j) THEN TRUE
  ELSE IF ScoreIsNull(votes, i) THEN nf
  ELSE IF ScoreIsNull(votes, j) THEN ~nf
  ELSE Score(votes, i) >= Score(votes, j)

\* QueueItem.get_next: .first() of the ordered queue; the rows that can be
\* first (rows of equal score come in any order), NoItem for an empty queue.
GetNext(items, votes, nf) ==
  IF Queue(items) = {} THEN {NoItem}
  ELSE {i \in Queue(items) : \A j \in Queue(items) : MayPrecede(votes, nf, i, j)}

\* ----------------------------------------------------- Python arithmetic
\* A Python float (IEEE 754 binary64) that is not negative: the bits of its
\* significand, the most significant first and none for 0, the last `frac`
\* of them after the binary point.  The arithmetic goes LimbBits bits at a
\* time, which keeps every intermediate number small.
Precision == 53
LimbBits == 10
Limb == 2 ^ LimbBits

RECURSIVE BitsOf(_)
BitsOf(n) == IF n = 0 THEN <<>> ELSE Append(BitsOf(n \div 2), n % 2)

\* The number of the first n bits of bits, and of them all.
RECURSIVE ValueOfFirst(_, _)
ValueOfFirst(bits, n) ==
  IF n = 0 THEN 0 ELSE 2 * ValueOfFirst(bits, n - 1) + bits[n]

ValueOf(bits) == ValueOfFirst(bits, Len(bits))

\* The LimbBits bits of a number below Limb.
LimbOf(n) == [i \in 1..LimbBits |-> (n \div (2 ^ (LimbBits - i))) % 2]

\* bits without its leading zeros.
Significant(bits) ==
  IF \A i \in 1..Len(bits) : bits[i] = 0 THEN <<>>
  ELSE LET first == CHOOSE i \in 1..Len(bits) :
                      bits[i] = 1 /\ \A j \in 1..(i - 1) : bits[j] = 0
       IN SubSeq(bits, first, Len(bits))

\* bits + 1.
Increment(bits) ==
  IF \A i \in 1..Len(bits) : bits[i] = 1
    THEN <<1>> \o [i \in 1..Len(bits) |-> 0]
    ELSE LET last == CHOOSE i \in 1..Len(bits) :
                       bits[i] = 0 /\ \A j \in (i + 1)..Len(bits) : bits[j] = 1
         IN [i \in 1..Len(bits) |->
               IF i < last THEN bits[i] ELSE IF i = last THEN 1 ELSE 0]

\* float(n) of an int n.
FloatOf(n) == [bits |-> BitsOf(n), frac |-> 0]

\* x, with `sticky` saying that something not zero follows its bits, rounded
\* to Precision bits: to the nearest, a tie to the even one.
RoundToPrecision(x, sticky) ==
  IF Len(x.bits) <= Precision THEN x
  ELSE LET keep == SubSeq(x.bits, 1, Precision)
           drop == SubSeq(x.bits, Precision + 1, Len(x.bits))
           up == /\ drop[1] = 1
                 /\ \/ sticky
                    \/ \E i \in 2..Len(drop) : drop[i] = 1
                    \/ keep[Precision] = 1
       IN [bits |-> IF up THEN Increment(keep) ELSE keep,
           frac |-> x.frac - Len(drop)]

\* Long division of r by d, r < d: `limbs` limbs of bits after the binary
\* point, and the remainder they leave.
RECURSIVE FractionBits(_, _, _)
FractionBits(r, d, limbs) ==
  IF limbs = 0 THEN <<>>
  ELSE LimbOf((r * Limb) \div d) \o FractionBits((r * Limb) % d, d, limbs - 1)

RECURSIVE Remainder(_, _, _)
Remainder(r, d, limbs) ==
  IF limbs = 0 THEN r ELSE Remainder((r * Limb) % d, d, limbs - 1)

\* Limbs enough for Precision significant bits of a quotient that is 0 or at
\* least 1 / Limb.
QuotientLimbs == (Precision \div LimbBits) + 2

\* n / d of two ints, which Python rounds correctly: the whole quotient when
\* d divides n, and else its bits by long division, rounded.
TrueDivide(n, d) ==
  IF n % d = 0 THEN FloatOf(n \div d)
  ELSE RoundToPrecision(
         [bits |-> Significant(BitsOf(n \div d)
                                 \o FractionBits(n % d, d, QuotientLimbs)),
          frac |-> QuotientLimbs * LimbBits],
         Remainder(n % d, d, QuotientLimbs) # 0)

\* The bits of bits * k + carry, a limb at a time from the least significant.
RECURSIVE TimesBits(_, _, _)
TimesBits(bits, k, carry) ==
  IF Len(bits) <= LimbBits THEN BitsOf(ValueOf(bits) * k + carry)
  ELSE LET t == ValueOf(SubSeq(bits, Len(bits) - LimbBits + 1, Len(bits))) * k + carry
       IN TimesBits(SubSeq(bits, 1, Len(bits) - LimbBits), k, t \div Limb)
            \o LimbOf(t % Limb)

\* x * k of a float x and a small int k.
Times(x, k) ==
  RoundToPrecision([bits |-> TimesBits(x.bits, k, 0), frac |-> x.frac], FALSE)

\* The whole part of x, and whether x is a whole number.
Floor(x) == ValueOf(SubSeq(x.bits, 1, Len(x.bits) - x.frac))
IsWhole(x) == \A i \in 1..Len(x.bits) : i > Len(x.bits) - x.frac => x.bits[i] = 0

\* x == n, x < n and x > n of a float x and an int n.
Equals(x, n) == Floor(x) = n /\ IsWhole(x)
Below(x, n) == Floor(x) < n
Above(x, n) == Floor(x) > n \/ (Floor(x) = n /\ ~IsWhole(x))

\* timedelta.total_seconds() of a timedelta of ms milliseconds: its
\* microseconds / 10**6.
TotalSeconds(ms) == TrueDivide(ms * 1000, 1000000)

\* Durations of a second, of a little more, and of a clock step.
PositionDurations == {Second, Second + 1, 2 * Second + 7, TrackDuration}

\* now() - playing_start_time of a track that has not ended, at the times the
\* clock shows, and position.total_seconds()*1000 of each.
Elapsed == {0, TrackDuration} \cup PositionDurations
PositionMs == [e \in Elapsed |-> Times(TotalSeconds(e), Second)]

\* QueueItem.get_track_position on a cached instance c at time t: the
\* position, a float, and the duration, an int.
GetTrackPosition(c, t) ==
  IF c.duration_ms = 0 THEN <<FloatOf(0), 0>>
  ELSE IF c.playing_start_time = NoTime THEN <<FloatOf(0), c.duration_ms>>
  ELSE IF t - c.playing_start_time > c.duration_ms
    THEN <<FloatOf(c.duration_ms), c.duration_ms>>
    ELSE <<PositionMs[t - c.playing_start_time], c.duration_ms>>

\* QueueItem.should_skip: skip_count > user_count / 2, in real division.
SkipCount(votes, i) == Cardinality({v \in VotesOn(votes, i) : v.is_skip})
\* should_skip with half of the users enough.
ShouldSkipAtHalf(votes, presence, i) ==
  2 * SkipCount(votes, i) >= UserCount(presence)

ShouldSkip(votes, presence, i) ==
  2 * SkipCount(votes, i) > UserCount(presence)

\* get_track_duration of spotify_api_utils: the duration, or 0 when the
\* service has none; FALSE in ok when the lookup raises.
TrackDurationLookup ==
  {[ok |-> TRUE, duration_ms |-> d] : d \in Durations}
    \cup {[ok |-> FALSE, duration_ms |-> 0]}

\* ------------------------------------------------- party_manager.py, parts

\* Command.update_party_manager_timestamp on the in-memory instance p.
UpdatePartyManagerTimestamp(p, m, t) ==
  [p EXCEPT !.last_manager_uuid = m, !.last_manager_check_in = t]

\* Command.other_manager_owns_party.
OtherManagerOwnsParty(m, p) == m # p.last_manager_uuid

\* Command.should_keep_running.
ShouldKeepRunning(m, p, presence) ==
  UserCount(presence) # 0 /\ ~OtherManagerOwnsParty(m, p)

\* prune_users with a row of exactly the age of the limit deleted too.
StaleAtLimit(presence, t) ==
  {u \in Users : presence[u] # NoTime
                 /\ presence[u] <= t - USER_CHECK_IN_FREQUENCY * Second}

\* The rows prune_users deletes at time t.
Stale(presence, t) ==
  {u \in Users : presence[u] # NoTime
                 /\ presence[u] < t - USER_CHECK_IN_FREQUENCY * Second}

\* Party.save(): the foreign key must point at a row.
CanSave(p) == p.playing_item = NoItem \/ db_items[p.playing_item].exists

\* run with the loop test after the body: a tick whatever keep_running is.
RunLoopBodyFirst(k) == "refresh"

\* Command.run, after handle or after a tick: time.sleep and the test of
\* the while loop on keep_running k.
RunLoop(k) == IF k THEN "refresh" ELSE "stopped"

\* What a frame of a tick held is gone when the tick is over; the next tick
\* reloads every field of self.party, so self.party is left empty here too.
EndTick(m) ==
  /\ party' = [party EXCEPT ![m] = NoParty]
  /\ item' = [item EXCEPT ![m] = NoCache]
  /\ prev_item' = [prev_item EXCEPT ![m] = NoItem]
  /\ ret' = [ret EXCEPT ![m] = "none"]
  /\ superseded' = [superseded EXCEPT ![m] = FALSE]
  /\ from_queue' = [from_queue EXCEPT ![m] = FALSE]

\* run without its except clause: the exception ends the command.
RaiseStops(m) ==
  /\ pc' = [pc EXCEPT ![m] = "stopped"]
  /\ EndTick(m)

\* An exception leaves maintain_party: run() logs it, sleeps and tests
\* keep_running, which the tick has not changed.
Raise(m) ==
  /\ pc' = [pc EXCEPT ![m] = RunLoop(keep_running[m])]
  /\ EndTick(m)

\* play_next_queue_item is entered, to return to pc r.
Call(m, r) ==
  /\ pc' = [pc EXCEPT ![m] = "pn_get"]
  /\ ret' = [ret EXCEPT ![m] = r]

\* ---------------------------------------------------------------- Init
QueuedRows ==
  {[exists |-> TRUE, playing_start_time |-> NoTime, duration_ms |-> d]
     : d \in Durations}

\* Votes by the users of S on the items of T, with values from V and skip
\* flags from K; one vote per user and item.
VoteSets(S, T, V, K) ==
  {vs \in SUBSET [user : S, item : T, value : V, is_skip : K] :
     \A v, w \in vs : (v.user = w.user /\ v.item = w.item) => v = w}

\* A party as the rest of the application leaves it for a manager to be
\* spawned: never managed (NoTime), or last managed by a process that is gone,
\* at one of `heartbeats`; nothing playing, or item 1 playing since one of
\* `starts`; the rows of the other tables from the sets given.
InitStore(nulls, heartbeats, starts, rowsets, votesets, presences) ==
  /\ now = InitNow
  /\ nulls_first \in nulls
  /\ \E hb \in heartbeats, st \in starts \cup {NoTime}, its \in rowsets :
       /\ st # NoTime => its[1].exists
       /\ db_party = [last_manager_uuid |-> IF hb = NoTime THEN NoUuid ELSE DeadUuid,
                      last_manager_check_in |-> hb,
                      playing_item |-> IF st = NoTime THEN NoItem ELSE 1]
       /\ db_items = [its EXCEPT ![1].playing_start_time = st]
       /\ db_votes \in {vs \in votesets : \A v \in vs : its[v.item].exists}
  /\ db_presence \in presences

InitLocals(running) ==
  /\ pc = [m \in Managers |-> IF m \in running THEN "start" ELSE "stopped"]
  /\ keep_running = [m \in Managers |-> m \in running]
  /\ party = [m \in Managers |-> NoParty]
  /\ item = [m \in Managers |-> NoCache]
  /\ prev_item = [m \in Managers |-> NoItem]
  /\ ret = [m \in Managers |-> "none"]
  /\ ticked = [m \in Managers |-> FALSE]
  /\ owned = [m \in Managers |-> FALSE]
  /\ pruned = {}
  /\ superseded = [m \in Managers |-> FALSE]
  /\ from_queue = [m \in Managers |-> FALSE]

\* The presence rows of a party where the users of S joined and checked in
\* last at one of `times`, or never joined (NoTime), and no one else joined.
Presences(S, times) ==
  {[u \in Users |-> IF u \in S THEN g[u] ELSE NoTime] : g \in [S -> times]}

Heartbeats ==
  {NoTime, InitNow, InitNow - MAX_MANAGER_CHECK_IN_WAIT * Second,
   InitNow - StaleAge(MAX_MANAGER_CHECK_IN_WAIT) * Second}
StalePresence == InitNow - StaleAge(USER_CHECK_IN_FREQUENCY) * Second

\* Two managers spawned for one party.
Init ==
  /\ InitStore({FALSE}, Heartbeats, {InitNow},
               [Items -> {NoRow, [exists |-> TRUE, playing_start_time |-> NoTime,
                                  duration_ms |-> TrackDuration]}],
               VoteSets({1}, {1}, {0}, {TRUE}),
               Presences(Few, {NoTime, InitNow}))
  /\ InitLocals(Managers)

\* One manager spawned for a party whose users vote to skip item 1; user
\* records may be stale, or of exactly the age of the limit, durations unknown.
SoloInit ==
  /\ InitStore({FALSE}, {NoTime}, {InitNow},
               [Items -> {NoRow} \cup QueuedRows],
               VoteSets(Few, {1}, {0}, {TRUE}),
               Presences(Few, {NoTime, InitNow, StalePresence,
                               InitNow - USER_CHECK_IN_FREQUENCY * Second}))
  /\ InitLocals({1})

\* One manager spawned for a party whose users have voted the queue up and
\* down, on either kind of database.
SelectInit ==
  /\ InitStore(BOOLEAN, {NoTime}, {InitNow},
               [Items -> {NoRow, [exists |-> TRUE, playing_start_time |-> NoTime,
                                  duration_ms |-> TrackDuration]}],
               VoteSets(Few, Items, {-1, 0, 1}, {FALSE}),
               Presences(Few, {InitNow}))
  /\ InitLocals({1})

\* One manager spawned for a party of up to five users, any of whom has
\* voted to skip item 1, which plays or is queued.
SkipInit ==
  /\ InitStore({FALSE}, {NoTime}, {InitNow},
               [Items -> {NoRow, [exists |-> TRUE, playing_start_time |-> NoTime,
                                  duration_ms |-> TrackDuration]}],
               VoteSets(Users, {1}, {0}, {TRUE}),
               Presences(Users, {NoTime, InitNow}))
  /\ InitLocals({1})

PlayingRows ==
  {[exists |-> TRUE, playing_start_time |-> NoTime, duration_ms |-> d]
     : d \in PositionDurations}

\* One manager spawned for a party that has played item 1 for the time of
\* one of those durations, or has just begun to.
PositionInit ==
  /\ InitStore({FALSE}, {NoTime},
               {InitNow - d : d \in PositionDurations} \cup {InitNow},
               [Items -> {NoRow} \cup PlayingRows],
               VoteSets(Few, {1}, {0}, {TRUE}),
               Presences(Few, {NoTime, InitNow}))
  /\ InitLocals({1})

\* ------------------------------------------------------------ the clock
Tick ==
  /\ now < InitNow + MaxTicks * ClockStep * Second
  /\ now' = now + ClockStep * Second
  /\ UNCHANGED <<nulls_first, store, pc, keep_running, locals, history, pruned, superseded, from_queue>>

\* User.check_in_to_party.
CheckInToParty(u) ==
  /\ db_presence' = [db_presence EXCEPT ![u] = now]
  /\ pruned' = pruned \ {u}
  /\ UNCHANGED <<now, nulls_first, db_party, db_items, db_votes,
                 pc, keep_running, locals, history, superseded, from_queue>>

\* ------------------------------------------------------- Command.handle
\* Party.objects.get, needs_new_manager, the claim, and run's first test.
Handle(m) ==
  /\ pc[m] = "start"
  /\ IF NeedsNewManager(db_party, now)
       THEN /\ party' = [party EXCEPT ![m] = UpdatePartyManagerTimestamp(db_party, m, now)]
            /\ pc' = [pc EXCEPT ![m] = RunLoop(keep_running[m])]
            /\ UNCHANGED keep_running
       ELSE /\ party' = [party EXCEPT ![m] = NoParty]
            /\ keep_running' = [keep_running EXCEPT ![m] = FALSE]
            /\ pc' = [pc EXCEPT ![m] = RunLoop(FALSE)]
  /\ UNCHANGED <<now, nulls_first, store, item, prev_item, ret, history, pruned, superseded, from_queue>>

\* maintain_party: self.party.refresh_from_db().
RefreshFromDb(m) ==
  /\ pc[m] = "refresh"
  /\ party' = [party EXCEPT ![m] = db_party]
  /\ item' = [item EXCEPT ![m] = NoCache]
  /\ superseded' = [superseded EXCEPT ![m] =
        owned[m] /\ db_party.last_manager_uuid # m]
  /\ from_queue' = [from_queue EXCEPT ![m] =
        db_party.playing_item = NoItem /\ Queue(db_items) # {}]
  /\ ticked' = [ticked EXCEPT ![m] = TRUE]
  /\ pc' = [pc EXCEPT ![m] = "update_track"]
  /\ UNCHANGED <<now, nulls_first, store, keep_running, prev_item, ret, owned, pruned>>

\* update_track, to the first call of play_next_queue_item: queue.count() and
\* the load of self.party.playing_item.
UpdateTrack(m) ==
  /\ pc[m] = "update_track"
  /\ LET playing == party[m].playing_item
         queue_size == Cardinality(Queue(db_items))
     IN IF playing # NoItem /\ ~db_items[playing].exists
          THEN \* QueueItem.DoesNotExist: the row went after the reload
               Raise(m)
          ELSE /\ item' = [item EXCEPT ![m] =
                     IF playing = NoItem THEN NoCache
                     ELSE [playing_start_time |-> db_items[playing].playing_start_time,
                           duration_ms |-> db_items[playing].duration_ms]]
               /\ IF playing = NoItem /\ queue_size = 0
                    THEN pc' = [pc EXCEPT ![m] = "prune_users"] /\ UNCHANGED ret
                    ELSE IF playing = NoItem
                      THEN Call(m, "position")
                      ELSE pc' = [pc EXCEPT ![m] = "position"] /\ UNCHANGED ret
               /\ UNCHANGED <<party, prev_item, superseded, from_queue>>
  /\ UNCHANGED <<now, nulls_first, store, keep_running, history, pruned>>

\* play_next_queue_item: prev_item = self.playing_item;
\* self.playing_item = QueueItem.get_next(self).
PlayNextGet(m) ==
  /\ pc[m] = "pn_get"
  /\ \E n \in GetNext(db_items, db_votes, nulls_first) :
       /\ prev_item' = [prev_item EXCEPT ![m] = party[m].playing_item]
       /\ party' = [party EXCEPT ![m].playing_item = n]
       /\ item' = [item EXCEPT ![m] =
             IF n = NoItem THEN NoCache
             ELSE [playing_start_time |-> db_items[n].playing_start_time,
                   duration_ms |-> db_items[n].duration_ms]]
       /\ pc' = [pc EXCEPT ![m] =
             IF party[m].playing_item # NoItem THEN "pn_delete"
             ELSE IF n # NoItem THEN "pn_start" ELSE "pn_save"]
  /\ UNCHANGED <<now, nulls_first, store, keep_running, ret, history, pruned, superseded, from_queue>>

\* QueueItem.delete() of row i: its votes go with it (CASCADE) and a party
\* playing it plays nothing (SET_NULL).  Deleting a row that is gone deletes
\* nothing.
DeleteItem(i) ==
  /\ db_items' = [db_items EXCEPT ![i] = NoRow]
  /\ db_votes' = {v \in db_votes : v.item # i}
  /\ db_party' = IF db_party.playing_item = i
                   THEN [db_party EXCEPT !.playing_item = NoItem]
                   ELSE db_party

\* play_next_queue_item: prev_item.delete().
PlayNextDelete(m) ==
  /\ pc[m] = "pn_delete"
  /\ DeleteItem(prev_item[m])
  /\ pc' = [pc EXCEPT ![m] =
        IF party[m].playing_item # NoItem THEN "pn_start" ELSE "pn_save"]
  /\ UNCHANGED <<now, nulls_first, db_presence, keep_running, locals,
                 history, pruned, superseded, from_queue>>

\* QueueItem.start_playing on the cached instance c at time t, the lookup
\* having answered d.
StartPlaying(c, d, t) ==
  [playing_start_time |-> t,
   duration_ms |-> IF c.duration_ms = 0 THEN d ELSE c.duration_ms]

\* play_next_queue_item: self.playing_item.start_playing(), which saves the
\* item (an UPDATE, or an INSERT when the row is gone).
PlayNextStart(m) ==
  /\ pc[m] = "pn_start"
  /\ \E r \in TrackDurationLookup :
       /\ item[m].duration_ms # 0 => r = [ok |-> TRUE, duration_ms |-> TrackDuration]
       /\ IF item[m].duration_ms = 0 /\ ~r.ok
            THEN Raise(m) /\ UNCHANGED db_items
            ELSE LET c == StartPlaying(item[m], r.duration_ms, now)
                 IN /\ item' = [item EXCEPT ![m] = c]
                    /\ db_items' = [db_items EXCEPT ![party[m].playing_item] =
                          [exists |-> TRUE,
                           playing_start_time |-> c.playing_start_time,
                           duration_ms |-> c.duration_ms]]
                    /\ pc' = [pc EXCEPT ![m] = "pn_save"]
                    /\ UNCHANGED <<party, prev_item, ret, superseded, from_queue>>
  /\ UNCHANGED <<now, nulls_first, db_party, db_votes, db_presence,
                 keep_running, history, pruned>>

\* play_next_queue_item: self.save(), every field of the in-memory party.
PlayNextSave(m) ==
  /\ pc[m] = "pn_save"
  /\ IF CanSave(party[m])
       THEN /\ db_party' = party[m]
            /\ pc' = [pc EXCEPT ![m] = ret[m]]
            /\ ret' = [ret EXCEPT ![m] = "none"]
            /\ prev_item' = [prev_item EXCEPT ![m] = NoItem]
            /\ UNCHANGED <<party, item, superseded, from_queue>>
       ELSE \* IntegrityError: the row of the playing item is gone
            Raise(m) /\ UNCHANGED db_party
  /\ UNCHANGED <<now, nulls_first, db_items, db_votes, db_presence,
                 keep_running, history, pruned>>

\* update_track: get_track_position(), the log line that divides by the
\* duration, and the test position_ms == duration_ms.
TrackPosition(m) ==
  /\ pc[m] = "position"
  /\ IF party[m].playing_item = NoItem
       THEN \* AttributeError: get_next found the queue empty
            Raise(m)
       ELSE LET pos == GetTrackPosition(item[m], now)
            IN IF pos[2] = 0
                 THEN \* ZeroDivisionError in position_ms/duration_ms
                      Raise(m)
                 ELSE IF Equals(pos[1], pos[2])
                   THEN Call(m, "prune_users")
                        /\ UNCHANGED <<party, item, prev_item, superseded, from_queue>>
                   ELSE /\ pc' = [pc EXCEPT ![m] = "should_skip"]
                        /\ UNCHANGED <<locals, superseded, from_queue>>
  /\ UNCHANGED <<now, nulls_first, store, keep_running, history, pruned>>

\* update_track: self.party.playing_item.should_skip().
TrackShouldSkip(m) ==
  /\ pc[m] = "should_skip"
  /\ IF ShouldSkip(db_votes, db_presence, party[m].playing_item)
       THEN Call(m, "prune_users")
       ELSE pc' = [pc EXCEPT ![m] = "prune_users"] /\ UNCHANGED ret
  /\ UNCHANGED <<now, nulls_first, store, keep_running, party, item,
                 prev_item, history, pruned, superseded, from_queue>>

\* Command.prune_users.
PruneUsers(m) ==
  /\ pc[m] = "prune_users"
  /\ db_presence' = [u \in Users |->
        IF u \in Stale(db_presence, now) THEN NoTime ELSE db_presence[u]]
  /\ pruned' = pruned \cup Stale(db_presence, now)
  /\ pc' = [pc EXCEPT ![m] = "save"]
  /\ UNCHANGED <<now, nulls_first, db_party, db_items, db_votes,
                 keep_running, locals, history, superseded, from_queue>>

\* maintain_party: update_party_manager_timestamp() and self.party.save().
SaveParty(m) ==
  /\ pc[m] = "save"
  /\ LET p == UpdatePartyManagerTimestamp(party[m], m, now)
     IN IF CanSave(p)
          THEN /\ party' = [party EXCEPT ![m] = p]
               /\ db_party' = p
               /\ pc' = [pc EXCEPT ![m] = "keep"]
               /\ owned' = [owned EXCEPT ![m] = TRUE]
               /\ UNCHANGED <<item, prev_item, ret, superseded, from_queue>>
          ELSE \* IntegrityError: the row of the playing item is gone
               Raise(m) /\ UNCHANGED <<db_party, owned>>
  /\ UNCHANGED <<now, nulls_first, db_items, db_votes, db_presence,
                 keep_running, ticked, pruned>>

\* run: self.keep_running = self.should_keep_running(), the sleep and the
\* test of the loop.
KeepRunning(m) ==
  /\ pc[m] = "keep"
  /\ LET k == ShouldKeepRunning(m, party[m], db_presence)
     IN /\ keep_running' = [keep_running EXCEPT ![m] = k]
        /\ pc' = [pc EXCEPT ![m] = RunLoop(k)]
  /\ EndTick(m)
  /\ UNCHANGED <<now, nulls_first, store, history, pruned>>

\* One step of the clock, of a user of `us` or of a manager.
Steps(us) ==
  \/ Tick
  \/ \E u \in us : CheckInToParty(u)
  \/ \E m \in Managers : Handle(m)
  \/ \E m \in Managers : RefreshFromDb(m)
  \/ \E m \in Managers : UpdateTrack(m)
  \/ \E m \in Managers : PlayNextGet(m)
  \/ \E m \in Managers : PlayNextDelete(m)
  \/ \E m \in Managers : PlayNextStart(m)
  \/ \E m \in Managers : PlayNextSave(m)
  \/ \E m \in Managers : TrackPosition(m)
  \/ \E m \in Managers : TrackShouldSkip(m)
  \/ \E m \in Managers : PruneUsers(m)
  \/ \E m \in Managers : SaveParty(m)
  \/ \E m \in Managers : KeepRunning(m)

\* Two managers, and user 1 checking in.
Next == Steps({1})

Spec == Init /\ [][Next]_vars

\* One manager, and the users of Few checking in.
SoloNext == Steps(Few)

SoloSpec == SoloInit /\ [][SoloNext]_vars
SelectSpec == SelectInit /\ [][SoloNext]_vars
PositionSpec == PositionInit /\ [][SoloNext]_vars
SkipSpec == SkipInit /\ [][Next]_vars

\* A step of manager m.
ManagerStep(m) ==
  \/ Handle(m) \/ RefreshFromDb(m) \/ UpdateTrack(m)
  \/ PlayNextGet(m) \/ PlayNextDelete(m) \/ PlayNextStart(m) \/ PlayNextSave(m)
  \/ TrackPosition(m) \/ TrackShouldSkip(m)
  \/ PruneUsers(m) \/ SaveParty(m) \/ KeepRunning(m)

\* run() is a loop of one thread: every query returns and every sleep ends,
\* so a manager that can take a step takes one; and the duration lookup,
\* asked again and again, does not raise every time.
FairSoloSpec ==
  /\ SoloSpec
  /\ \A m \in Managers : WF_vars(ManagerStep(m))
  /\ \A m \in Managers : SF_vars(PlayNextStart(m) /\ pc'[m] = "pn_save")

\* ================================================================ claims
Others(m) == Managers \ {m}
\* m has claimed the party in handle and has not begun its first tick.
JustClaimed(m) == pc[m] = "refresh" /\ ~ticked[m]
\* The step is one of manager m.
StepOf(m) == pc'[m] # pc[m]

\* C1: of two managers that both start while the stored heartbeat is absent
\* or stale, exactly one claims the party: two managers are never both past a
\* successful claim with neither having begun a tick (no write in between).
C1_ExactlyOneClaims ==
  \A a \in Managers : \A b \in Others(a) : ~(JustClaimed(a) /\ JustClaimed(b))

\* C2: a manager that finds, when it reloads the party, that another manager
\* has written itself as the owner writes nothing more to the store: no step
\* of it, in that tick, changes a row.
C2_SupersededWritesNothing ==
  [][\A m \in Managers : (superseded[m] /\ StepOf(m)) => store' = store]_vars

\* C3: a manager that finds, when it reloads the party, that another manager
\* has written itself as the owner stops at the continuation check of that
\* tick.
C3_SupersededStops ==
  [][\A m \in Managers :
       (pc[m] = "keep" /\ superseded[m] /\ StepOf(m)) => pc'[m] = "stopped"]_vars

\* C4: a successful claim in handle leaves the claimant's uuid and the
\* current time in the stored party row.
C4_ClaimIsStored ==
  [][\A m \in Managers :
       (pc[m] = "start" /\ pc'[m] = "refresh")
         => /\ db_party'.last_manager_uuid = m
            /\ db_party'.last_manager_check_in = now]_vars

\* C5: handle claims the party if and only if the stored heartbeat is absent
\* or more than MAX_MANAGER_CHECK_IN_WAIT (10 s) old.
C5_ClaimIffStale ==
  [][\A m \in Managers :
       (pc[m] = "start" /\ StepOf(m))
         => ((keep_running'[m] /\ pc'[m] = "refresh")
               <=> (db_party.last_manager_check_in = NoTime
                    \/ now - db_party.last_manager_check_in > 10 * Second))]_vars

\* A manager was refused on a heartbeat exactly 10 s old and another claimed
\* the party later.
C5_Witness ==
  \E a \in Managers : \E b \in Others(a) :
    /\ pc[a] = "stopped" /\ ~ticked[a]
    /\ JustClaimed(b)
    /\ db_party.last_manager_check_in = InitNow - 10 * Second

\* C6: a manager whose claim fails goes from handle to stopped, where it
\* stays, without a tick and without a change to any stored row.
C6_RefusedStopsUntouched ==
  [][\A m \in Managers :
       /\ (pc[m] = "start" /\ StepOf(m) /\ ~keep_running'[m])
            => (pc'[m] = "stopped" /\ ~ticked'[m] /\ store' = store)
       /\ pc[m] = "stopped" => (pc'[m] = "stopped" /\ ticked'[m] = ticked[m])]_vars

\* A manager was refused while the other, the owner, is in a tick.
C6_Witness ==
  \E a \in Managers : \E b \in Others(a) :
    /\ pc[a] = "stopped" /\ ~ticked[a] /\ ~keep_running[a]
    /\ db_party.last_manager_uuid = b /\ pc[b] = "keep"

\* No presence row of the party is live: each is older than the window.
NoLivePresence ==
  \A u \in Users : db_presence[u] = NoTime
                   \/ db_presence[u] < now - USER_CHECK_IN_FREQUENCY * Second

\* C7: if from some point on the party has no live presence, every manager
\* is eventually stopped.
C7_NoPresenceStops ==
  \A m \in Managers : (<>[]NoLivePresence) => <>(pc[m] = "stopped")

\* C8: when a tick evaluates should_skip, no presence row older than the
\* liveness window is left to be counted by user_count.
C8_SkipCountsNoStalePresence ==
  [][\A m \in Managers :
       (pc[m] = "should_skip" /\ StepOf(m)) => Stale(db_presence, now) = {}]_vars

\* The score of the claim: the sum of the vote values, 0 without votes.
SumOfVotes(i) == SumValues(VotesOn(db_votes, i))
\* b is the one queued item of strictly highest score.
StrictlyBest(b) ==
  /\ b \in Queue(db_items)
  /\ \A j \in Queue(db_items) \ {b} : SumOfVotes(b) > SumOfVotes(j)

\* C9: the item play_next_queue_item gets from get_next is a queued row (not
\* playing, not deleted), and is the one of strictly highest score when there
\* is one.
C9_SelectsHighestScore ==
  [][\A m \in Managers :
       (pc[m] = "pn_get" /\ StepOf(m))
         => LET n == party'[m].playing_item
            IN /\ n # NoItem => n \in Queue(db_items)
               /\ \A b \in Items : StrictlyBest(b) => n = b]_vars

\* C10: a tick that finds the playing item with a duration of zero or None
\* does not advance it as completed and goes on to evaluate should_skip.
C10_ZeroDurationGoesToSkip ==
  [][\A m \in Managers :
       (pc[m] = "position" /\ StepOf(m)
        /\ party[m].playing_item # NoItem /\ item[m].duration_ms = 0)
         => pc'[m] = "should_skip"]_vars

\* C11: the position get_track_position reports is never above the duration
\* (it is never below 0: no float here is), and is the duration exactly when
\* now = playing_start_time + duration_ms.
C11_PositionWithinDuration ==
  \A m \in Managers :
    (pc[m] = "position" /\ party[m].playing_item # NoItem)
      => LET pos == GetTrackPosition(item[m], now)
         IN /\ ~Above(pos[1], pos[2])
            /\ (/\ item[m].duration_ms # 0
                /\ item[m].playing_start_time # NoTime
                /\ now = item[m].playing_start_time + item[m].duration_ms)
                 => Equals(pos[1], pos[2])

\* The pcs of a tick, and a step that ends the tick of m: the continuation
\* check, or an exception.
InTick ==
  {"refresh", "update_track", "pn_get", "pn_delete", "pn_start", "pn_save",
   "position", "should_skip", "prune_users", "save", "keep"}
TickEnds(m) ==
  pc[m] \in InTick /\ StepOf(m) /\ pc'[m] \in {"refresh", "stopped"}
Raises(m) == TickEnds(m) /\ pc[m] # "keep"

\* The counts of the claims: the skip votes on item i, the presence rows.
SkipVotes(i) == Cardinality({v \in db_votes : v.item = i /\ v.is_skip})
PresentUsers == Cardinality({u \in Users : db_presence[u] # NoTime})

C13_AdvanceIffEndedOrSkipped ==
  [][\A m \in Managers :
       /\ (/\ pc[m] = "position" /\ StepOf(m)
           /\ party[m].playing_item # NoItem
           /\ item[m].duration_ms # 0 /\ item[m].playing_start_time # NoTime)
            => LET pos == GetTrackPosition(item[m], now)
               IN IF Below(pos[1], pos[2])
                    THEN pc'[m] = "should_skip"
                    ELSE pc'[m] = "pn_get"
       /\ (pc[m] = "should_skip" /\ StepOf(m))
            => (pc'[m] = "pn_get"
                  <=> 2 * SkipVotes(party[m].playing_item) > PresentUsers)
       /\ (pc[m] = "pn_save" /\ ret[m] = "prune_users" /\ pc'[m] = "prune_users")
            => /\ db_party'.playing_item = party[m].playing_item
               /\ prev_item[m] # NoItem
               /\ ~db_items'[prev_item[m]].exists]_vars

\* C14: a tick that begins with nothing playing and items in the queue ends
\* with the stored party playing an item that has its playing_start_time and
\* is not in the queue any more.  The ticks looked at are those of the first
\* instant, InitNow, in which no time passes: the item cannot have played to
\* its end.
C14_QueuedTickEndsPlaying ==
  [][\A m \in Managers :
       (from_queue[m] /\ TickEnds(m) /\ now = InitNow)
         => LET n == db_party'.playing_item
            IN /\ n # NoItem
               /\ db_items'[n].exists
               /\ db_items'[n].playing_start_time # NoTime
               /\ n \notin Queue(db_items')]_vars

\* C15: the playing_start_time of a row, once set, is not set to another
\* value while the row exists.
C15_StartedOnce ==
  [][\A i \in Items :
       (/\ db_items[i].exists /\ db_items'[i].exists
        /\ db_items[i].playing_start_time # NoTime)
         => db_items'[i].playing_start_time = db_items[i].playing_start_time]_vars

\* C16: when the duration lookup of start_playing raises, the tick ends with
\* the item get_next chose as the playing item of the stored party.
C16_LookupFailureKeepsItem ==
  [][\A m \in Managers :
       (pc[m] = "pn_start" /\ Raises(m))
         => db_party'.playing_item = party[m].playing_item]_vars

\* C17: an exception in a tick does not stop the manager: it keeps running
\* and its next step reloads the party; the manager stops only from handle
\* or at the continuation check, and there only without users or as the
\* manager of a party another manager owns.
C17_FailureKeepsRunning ==
  [][\A m \in Managers :
       /\ Raises(m) => (pc'[m] = "refresh" /\ keep_running'[m])
       /\ (pc[m] = "refresh" /\ StepOf(m)) => party'[m] = db_party
       /\ (pc[m] # "stopped" /\ pc'[m] = "stopped")
            => \/ pc[m] = "start"
               \/ /\ pc[m] = "keep"
                  /\ \/ PresentUsers = 0
                     \/ party[m].last_manager_uuid # m]_vars

\* A manager is about to reload the party after a tick that raised before it
\* saved the party once.
C17_Witness ==
  \E m \in Managers :
    pc[m] = "refresh" /\ ticked[m] /\ ~owned[m] /\ keep_running[m]

\* C18: prune_users deletes the presence rows whose last_check_in is more
\* than 60 s old and no other row; a row it deleted is not there to be
\* counted until the user checks in again.
C18_PruneDeletesStaleOnly ==
  [][/\ \A m \in Managers :
          (pc[m] = "prune_users" /\ StepOf(m))
            => \A u \in Users :
                 db_presence'[u] =
                   IF db_presence[u] # NoTime /\ now - db_presence[u] > 60 * Second
                     THEN NoTime ELSE db_presence[u]
     /\ \A u \in pruned' : db_presence'[u] = NoTime]_vars

\* prune_users has deleted the row of one user and left the row, exactly
\* 60 s old, of another.
C18_Witness ==
  /\ pc[1] = "save"
  /\ pruned # {}
  /\ \E u \in Users : db_presence[u] = now - 60 * Second

\* C19: when a tick of a running manager is over, the stored party has a
\* heartbeat (a row without one needs a new manager whatever the time is).
C19_RunningKeepsHeartbeat ==
  [][\A m \in Managers :
       (TickEnds(m) /\ pc'[m] = "refresh")
         => db_party'.last_manager_check_in # NoTime]_vars

\* C20: between the ticks of the managers, every row with a
\* playing_start_time is the playing item of the stored party.
C20_StartedIsPlaying ==
  (\A m \in Managers : pc[m] \in {"start", "refresh", "stopped"})
    => \A i \in Items :
         (db_items[i].exists /\ db_items[i].playing_start_time # NoTime)
           => db_party.playing_item = i

====
